---------------------------- MODULE Spec2Model ----------------------------
(***************************************************************************)
(* Model of the StudyChain hash-chain engine (src/app.py and               *)
(* src/blockchain_utils.py): the study_session table, the dashboard POST   *)
(* handler that mines and appends a block, update_status, delete_session,  *)
(* and the two chain verifiers.                                            *)
(*                                                                         *)
(* Strings are sequences of one-character strings, so that the             *)
(* delimiter-free concatenation of calculate_hash is modelled as the       *)
(* concatenation it is.  hashlib.sha256 is a library function: it is        *)
(* modelled by Sha256 below, a fixed-length digest computed by a rolling    *)
(* checksum of the hashed string.                                           *)
(***************************************************************************)
EXTENDS Integers, Sequences, FiniteSets, TLC

VARIABLES
    blocks,   \* the study_session table, in id order: row i has id i
    now,      \* the clock read by datetime.utcnow(), in whole seconds
    resp,     \* the message of the last response (flashed, or in the JSON)
    req,      \* per worker thread: the dashboard POST it is in the middle of
    call      \* a call made on its own: mine_block's arguments, loop counter
              \* and result, or a tamper test's edit and the verifiers'
              \* verdicts

vars == <<blocks, now, resp, req, call>>

---------------------------------------------------------------------------
\* Bounds of the model.
MaxRows == 2        \* rows the table may hold
MaxTime == 1        \* last second of the clock
MaxThreads == 2     \* worker threads serving requests concurrently
MaxDifficulty == 4  \* largest difficulty mine_block is called with on its own

\* Program constants (src/app.py:30-31), scaled to the model's digest.
DIFFICULTY == 2
MAX_NONCE == 3

Users == {1, 2}              \* rows of the user table
SessionUsers == {0, 1, 2, 3} \* session['user_id']: 0 = not logged in, 3 = no such user
Threads == 1..MaxThreads

---------------------------------------------------------------------------
\* Strings.

DigitChars == <<"0", "1", "2", "3", "4", "5", "6", "7", "8", "9">>
HexChars == <<"0", "1", "2", "3", "4", "5", "6", "7", "8", "9",
              "a", "b", "c", "d", "e", "f">>

Alphabet == <<"0", "1", "2", "3", "4", "5", "6", "7", "8", "9",
              "a", "b", "c", "d", "e", "f", "-", " ", ":", "M", "P",
              "g", "i", "l", "m", "n", "o", "p", "t", "x">>

CharCode == [c \in {Alphabet[i] : i \in 1..Len(Alphabet)} |->
                CHOOSE i \in 1..Len(Alphabet) : Alphabet[i] = c]

Pending == <<"p", "e", "n", "d", "i", "n", "g">>
Completed == <<"c", "o", "m", "p", "l", "e", "t", "e", "d">>
Late == <<"l", "a", "t", "e">>

RECURSIVE Repeat(_, _)
Repeat(c, n) == IF n <= 0 THEN <<>> ELSE <<c>> \o Repeat(c, n - 1)

\* str.startswith
StartsWith(s, prefix) ==
    /\ Len(prefix) <= Len(s)
    /\ \A i \in 1..Len(prefix) : s[i] = prefix[i]

\* str(int)
RECURSIVE NatStr(_)
NatStr(n) == IF n < 10 THEN <<DigitChars[n + 1]>>
             ELSE NatStr(n \div 10) \o <<DigitChars[(n % 10) + 1]>>

Str(n) == IF n < 0 THEN <<"-">> \o NatStr(0 - n) ELSE NatStr(n)

Pad2(n) == IF n < 10 THEN <<"0">> \o NatStr(n) ELSE NatStr(n)

IsDigit(c) == \E i \in 1..10 : DigitChars[i] = c
DigitVal(c) == (CHOOSE i \in 1..10 : DigitChars[i] = c) - 1

RECURSIVE NatOf(_)
NatOf(s) == IF Len(s) = 0 THEN 0
            ELSE 10 * NatOf(SubSeq(s, 1, Len(s) - 1)) + DigitVal(s[Len(s)])

\* int(str): IntOk is whether int() returns, IntOf what it returns
IntOk(s) ==
    LET body == IF Len(s) > 0 /\ s[1] = "-" THEN Tail(s) ELSE s
    IN  Len(body) > 0 /\ \A i \in 1..Len(body) : IsDigit(body[i])

IntOf(s) == IF s[1] = "-" THEN 0 - NatOf(Tail(s)) ELSE NatOf(s)

\* str.strip
RECURSIVE LStrip(_)
LStrip(s) == IF Len(s) > 0 /\ s[1] = " " THEN LStrip(Tail(s)) ELSE s

RECURSIVE RStrip(_)
RStrip(s) == IF Len(s) > 0 /\ s[Len(s)] = " "
             THEN RStrip(SubSeq(s, 1, Len(s) - 1)) ELSE s

Strip(s) == RStrip(LStrip(s))

\* Dates are days of January 2024.
DatePrefix == <<"2", "0", "2", "4", "-", "0", "1", "-">>

\* str(datetime.date)
DateStr(d) == DatePrefix \o Pad2(d)

\* datetime.strptime(date_str, '%Y-%m-%d').date(): 0 when it raises ValueError
ParseDate(s) ==
    IF /\ Len(s) = 10
       /\ SubSeq(s, 1, 8) = DatePrefix
       /\ IsDigit(s[9]) /\ IsDigit(s[10])
       /\ NatOf(SubSeq(s, 9, 10)) \in 1..31
    THEN NatOf(SubSeq(s, 9, 10))
    ELSE 0

\* timestamp.strftime('%Y-%m-%d %H:%M:%S'), of which the seconds vary
StrfTime(t) == Pad2(t)

---------------------------------------------------------------------------
\* The digest.

HashModulus == 1000003
LeadLen == 3
BodyLen == 5

RECURSIVE MixFrom(_, _, _)
MixFrom(h, s, i) ==
    IF i > Len(s) THEN h
    ELSE MixFrom((h * 31 + CharCode[s[i]]) % HashModulus, s, i + 1)

Mix(s) == MixFrom(7, s, 1)

\* digit i of the digest's leading run
LeadDigit(h, i) ==
    LET x == ((h % 9973) * (11 + 2 * i) + 5 * i) % 97
    IN  IF x % 3 # 0 THEN "0" ELSE HexChars[(x % 15) + 2]

RECURSIVE HexOf(_, _)
HexOf(h, n) == IF n = 0 THEN <<>>
               ELSE HexOf(h \div 16, n - 1) \o <<HexChars[(h % 16) + 1]>>

\* hashlib.sha256(s.encode()).hexdigest()
Sha256(s) ==
    LET h == Mix(s)
    IN  [i \in 1..LeadLen |-> LeadDigit(h, i)] \o HexOf(h, BodyLen)

HashLen == LeadLen + BodyLen

ZeroHash == Repeat("0", HashLen)

calculate_hash(block_number, timestamp, prev_hash, data, nonce, difficulty) ==
    Sha256(Str(block_number) \o timestamp \o prev_hash \o data
           \o Str(nonce) \o Str(difficulty))

\* MineFrom with the target one zero short.
RECURSIVE MineFromShortTarget(_, _, _, _, _, _)
MineFromShortTarget(nonce, block_number, timestamp, prev_hash, data, difficulty) ==
    LET hash_result == calculate_hash(block_number, timestamp, prev_hash,
                                      data, nonce, difficulty)
    IN  IF nonce < MAX_NONCE
        THEN IF StartsWith(hash_result, Repeat("0", difficulty - 1))
             THEN <<hash_result, nonce>>
             ELSE MineFromShortTarget(nonce + 1, block_number, timestamp,
                                      prev_hash, data, difficulty)
        ELSE <<hash_result, nonce>>

\* MineFrom returning, at the ceiling, the hash of the last nonce the loop
\* tested.
RECURSIVE MineFromStaleHash(_, _, _, _, _, _)
MineFromStaleHash(nonce, block_number, timestamp, prev_hash, data, difficulty) ==
    IF nonce < MAX_NONCE
    THEN LET hash_result == calculate_hash(block_number, timestamp, prev_hash,
                                           data, nonce, difficulty)
         IN  IF StartsWith(hash_result, Repeat("0", difficulty))
             THEN <<hash_result, nonce>>
             ELSE MineFromStaleHash(nonce + 1, block_number, timestamp,
                                    prev_hash, data, difficulty)
    ELSE <<calculate_hash(block_number, timestamp, prev_hash, data,
                          nonce - 1, difficulty), nonce>>

RECURSIVE MineFrom(_, _, _, _, _, _)
MineFrom(nonce, block_number, timestamp, prev_hash, data, difficulty) ==
    LET hash_result == calculate_hash(block_number, timestamp, prev_hash,
                                      data, nonce, difficulty)
    IN  IF nonce < MAX_NONCE
        THEN IF StartsWith(hash_result, Repeat("0", difficulty))
             THEN <<hash_result, nonce>>
             ELSE MineFrom(nonce + 1, block_number, timestamp, prev_hash,
                           data, difficulty)
        ELSE <<hash_result, nonce>>

\* mine_block with the search started at nonce 1.
mine_block_from_one(block_number, timestamp, prev_hash, data, difficulty) ==
    MineFrom(1, block_number, timestamp, prev_hash, data, difficulty)

mine_block(block_number, timestamp, prev_hash, data, difficulty) ==
    MineFrom(0, block_number, timestamp, prev_hash, data, difficulty)

---------------------------------------------------------------------------
\* The study_session table and its queries.

\* DataOf with the status left out of the payload.
DataOfNoStatus(date, subject, duration, status) ==
    DateStr(date) \o subject \o Str(duration)

\* f"{date}{subject}{duration}{status}"
DataOf(date, subject, duration, status) ==
    DateStr(date) \o subject \o Str(duration) \o status

\* StudySession.query.filter_by(user_id=user_id), in id order
UserRows(tbl, user_id) == SelectSeq(tbl, LAMBDA r : r.user_id = user_id)

\* .order_by(StudySession.block_number): insertion of r into a sorted list,
\* after the rows whose block_number is not greater (ties stay in id order)
RECURSIVE InsertSorted(_, _)
InsertSorted(sorted, r) ==
    IF Len(sorted) = 0 THEN <<r>>
    ELSE IF sorted[Len(sorted)].block_number <= r.block_number
         THEN Append(sorted, r)
         ELSE Append(InsertSorted(SubSeq(sorted, 1, Len(sorted) - 1), r),
                     sorted[Len(sorted)])

RECURSIVE SortByNumber(_)
SortByNumber(rows) ==
    IF Len(rows) = 0 THEN <<>>
    ELSE InsertSorted(SortByNumber(SubSeq(rows, 1, Len(rows) - 1)),
                      rows[Len(rows)])

OrderedSessions(tbl, user_id) == SortByNumber(UserRows(tbl, user_id))

\* TailRows without filter_by(user_id=user.id).
TailRowsAllUsers(tbl, user_id) ==
    {tbl[i] : i \in {j \in 1..Len(tbl) :
        \A k \in 1..Len(tbl) : tbl[k].block_number <= tbl[j].block_number}}

\* .order_by(StudySession.block_number.desc()).first(): the rows that query
\* may return; more than one only when two rows share the highest number
TailRows(tbl, user_id) ==
    LET rows == UserRows(tbl, user_id)
    IN  {rows[i] : i \in {j \in 1..Len(rows) :
            \A k \in 1..Len(rows) : rows[k].block_number <= rows[j].block_number}}

\* Tails with the block number of the tail reused instead of incremented.
TailsSameNumber(tbl, user_id) ==
    IF TailRows(tbl, user_id) = {}
    THEN {[prev_hash |-> ZeroHash, block_number |-> 1]}
    ELSE {[prev_hash |-> r.hash, block_number |-> r.block_number] :
            r \in TailRows(tbl, user_id)}

\* Tails with the tail's own prev_hash handed on instead of its hash.
TailsStaleLink(tbl, user_id) ==
    IF TailRows(tbl, user_id) = {}
    THEN {[prev_hash |-> ZeroHash, block_number |-> 1]}
    ELSE {[prev_hash |-> r.prev_hash, block_number |-> r.block_number + 1] :
            r \in TailRows(tbl, user_id)}

\* prev_hash and block_number as lines 273-274 compute them
Tails(tbl, user_id) ==
    IF TailRows(tbl, user_id) = {}
    THEN {[prev_hash |-> ZeroHash, block_number |-> 1]}
    ELSE {[prev_hash |-> r.hash, block_number |-> r.block_number + 1] :
            r \in TailRows(tbl, user_id)}

---------------------------------------------------------------------------
\* The verifiers.

\* RecomputedHash with str(timestamp) in place of the strftime form.
RecomputedHashRawTime(session) ==
    calculate_hash(session.block_number, Str(session.timestamp),
                   session.prev_hash,
                   DataOf(session.date, session.subject, session.duration,
                          session.status),
                   session.nonce, session.difficulty)

RecomputedHash(session) ==
    calculate_hash(session.block_number, StrfTime(session.timestamp),
                   session.prev_hash,
                   DataOf(session.date, session.subject, session.duration,
                          session.status),
                   session.nonce, session.difficulty)

HashCheckFails(sessions, i) == RecomputedHash(sessions[i]) # sessions[i].hash

\* LinkCheckFails starting one block late.
LinkCheckFailsLate(sessions, i) ==
    i > 2 /\ sessions[i].prev_hash # sessions[i - 1].hash

LinkCheckFails(sessions, i) ==
    i > 1 /\ sessions[i].prev_hash # sessions[i - 1].hash

\* DifficultyCheckFails with the target one zero short.
DifficultyCheckFailsShort(sessions, i) ==
    ~StartsWith(sessions[i].hash, Repeat("0", sessions[i].difficulty - 1))

DifficultyCheckFails(sessions, i) ==
    ~StartsWith(sessions[i].hash, Repeat("0", sessions[i].difficulty))

Verdict(valid, block, message) ==
    [valid |-> valid, block |-> block, message |-> message]

\* VerifyFrom returning valid after the first block it checks.
VerifyFromFirstOnly(sessions, i) ==
    IF i > Len(sessions) THEN Verdict(TRUE, 0, "Blockchain is valid")
    ELSE IF HashCheckFails(sessions, i)
         THEN Verdict(FALSE, sessions[i].block_number, "has invalid hash")
    ELSE IF LinkCheckFails(sessions, i)
         THEN Verdict(FALSE, sessions[i].block_number, "has broken chain link")
    ELSE IF DifficultyCheckFails(sessions, i)
         THEN Verdict(FALSE, sessions[i].block_number,
                      "doesn't meet difficulty requirement")
    ELSE Verdict(TRUE, 0, "Blockchain is valid")

\* VerifyFrom testing the link before the hash.
RECURSIVE VerifyFromLinkFirst(_, _)
VerifyFromLinkFirst(sessions, i) ==
    IF i > Len(sessions) THEN Verdict(TRUE, 0, "Blockchain is valid")
    ELSE IF LinkCheckFails(sessions, i)
         THEN Verdict(FALSE, sessions[i].block_number, "has broken chain link")
    ELSE IF HashCheckFails(sessions, i)
         THEN Verdict(FALSE, sessions[i].block_number, "has invalid hash")
    ELSE IF DifficultyCheckFails(sessions, i)
         THEN Verdict(FALSE, sessions[i].block_number,
                      "doesn't meet difficulty requirement")
    ELSE VerifyFromLinkFirst(sessions, i + 1)

\* the loop of verify_chain from index i on
RECURSIVE VerifyFrom(_, _)
VerifyFrom(sessions, i) ==
    IF i > Len(sessions) THEN Verdict(TRUE, 0, "Blockchain is valid")
    ELSE IF HashCheckFails(sessions, i)
         THEN Verdict(FALSE, sessions[i].block_number, "has invalid hash")
    ELSE IF LinkCheckFails(sessions, i)
         THEN Verdict(FALSE, sessions[i].block_number, "has broken chain link")
    ELSE IF DifficultyCheckFails(sessions, i)
         THEN Verdict(FALSE, sessions[i].block_number,
                      "doesn't meet difficulty requirement")
    ELSE VerifyFrom(sessions, i + 1)

VerifySessions(sessions) ==
    IF Len(sessions) = 0 THEN Verdict(TRUE, 0, "No blocks to verify")
    ELSE VerifyFrom(sessions, 1)

verify_chain(tbl, user_id) == VerifySessions(OrderedSessions(tbl, user_id))

ErrorEntry(block, message) == [block |-> block, message |-> message]

\* BlockErrors stopping at the first check that fails.
BlockErrorsFirstOnly(sessions, i) ==
    IF HashCheckFails(sessions, i)
    THEN <<ErrorEntry(sessions[i].block_number, "Invalid hash")>>
    ELSE IF LinkCheckFails(sessions, i)
    THEN <<ErrorEntry(sessions[i].block_number, "Broken chain link")>>
    ELSE IF DifficultyCheckFails(sessions, i)
    THEN <<ErrorEntry(sessions[i].block_number,
                      "Doesn't meet difficulty requirement")>>
    ELSE <<>>

\* the errors one iteration of verify_user_chain's loop appends
BlockErrors(sessions, i) ==
    (IF HashCheckFails(sessions, i)
     THEN <<ErrorEntry(sessions[i].block_number, "Invalid hash")>> ELSE <<>>)
    \o (IF LinkCheckFails(sessions, i)
        THEN <<ErrorEntry(sessions[i].block_number, "Broken chain link")>>
        ELSE <<>>)
    \o (IF DifficultyCheckFails(sessions, i)
        THEN <<ErrorEntry(sessions[i].block_number,
                          "Doesn't meet difficulty requirement")>>
        ELSE <<>>)

RECURSIVE CollectErrors(_, _)
CollectErrors(sessions, i) ==
    IF i > Len(sessions) THEN <<>>
    ELSE BlockErrors(sessions, i) \o CollectErrors(sessions, i + 1)

BatchVerdict(valid, count, message, errors) ==
    [valid |-> valid, count |-> count, message |-> message, errors |-> errors]

VerifySessionsBatch(sessions) ==
    IF Len(sessions) = 0 THEN BatchVerdict(TRUE, 0, "No blocks to verify", <<>>)
    ELSE LET errors == CollectErrors(sessions, 1)
         IN  IF Len(errors) > 0
             THEN BatchVerdict(FALSE, Len(errors), "Found error(s)", errors)
             ELSE BatchVerdict(TRUE, 0, "Blockchain is valid", <<>>)

verify_user_chain(tbl, user_id) ==
    VerifySessionsBatch(OrderedSessions(tbl, user_id))

---------------------------------------------------------------------------
\* The requests.

Form(date, subject, duration, unit, status) ==
    [date |-> date, subject |-> subject, duration |-> duration,
     duration_unit |-> unit, status |-> status]

Jan01 == DatePrefix \o <<"0", "1">>
Jan02 == DatePrefix \o <<"0", "2">>

\* request.form of the dashboard POSTs sent: two that are accepted and one
\* for each rejection; the status is whatever string the client posts
Forms ==
    { Form(Jan01, <<"M">>, <<"1", "2">>, "minutes", Pending),
      Form(Jan02, <<" ", "P">>, <<"1">>, "hours", Late),
      Form(<<"x">>, <<"M">>, <<"2">>, "minutes", Pending),
      Form(Jan01, <<"M">>, <<"x">>, "minutes", Pending),
      Form(Jan01, <<" ">>, <<"2">>, "minutes", Pending),
      Form(Jan01, <<"M">>, <<"0">>, "hours", Pending) }

Idle == [pc |-> "idle"]

\* Rejection without the test that the duration is positive.
RejectionAnyDuration(user_id, form) ==
    IF user_id = 0 THEN "Please login to continue"
    ELSE IF user_id \notin Users THEN "User not found. Please login again."
    ELSE IF ParseDate(form.date) = 0 THEN "Invalid input"
    ELSE IF ~IntOk(form.duration) THEN "Invalid input"
    ELSE IF Len(Strip(form.subject)) = 0 THEN "Subject cannot be empty"
    ELSE "ok"

\* Lines 238-268 of dashboard(): the response that ends the request before
\* the chain is read, or "ok"
Rejection(user_id, form) ==
    IF user_id = 0 THEN "Please login to continue"
    ELSE IF user_id \notin Users THEN "User not found. Please login again."
    ELSE IF ParseDate(form.date) = 0 THEN "Invalid input"
    ELSE IF ~IntOk(form.duration) THEN "Invalid input"
    ELSE IF Len(Strip(form.subject)) = 0 THEN "Subject cannot be empty"
    ELSE IF IntOf(form.duration) <= 0 THEN "Duration must be positive"
    ELSE "ok"

\* Lines 250-268: the values the handler goes on with
Parsed(user_id, form) ==
    [user_id |-> user_id,
     date |-> ParseDate(form.date),
     subject |-> Strip(form.subject),
     duration |-> IF form.duration_unit = "hours"
                  THEN IntOf(form.duration) * 60 ELSE IntOf(form.duration),
     status |-> form.status]

\* NewSession mining against a target one zero short of the difficulty it
\* stores.
NewSessionMinesShort(id, in, tail, timestamp) ==
    LET data == DataOf(in.date, in.subject, in.duration, in.status)
        mined == mine_block(tail.block_number, StrfTime(timestamp),
                            tail.prev_hash, data, DIFFICULTY - 1)
    IN  [id |-> id,
         user_id |-> in.user_id,
         date |-> in.date,
         subject |-> in.subject,
         duration |-> in.duration,
         status |-> in.status,
         block_number |-> tail.block_number,
         timestamp |-> timestamp,
         hash |-> mined[1],
         prev_hash |-> tail.prev_hash,
         nonce |-> mined[2],
         difficulty |-> DIFFICULTY]

\* Lines 276-302: the row built from the parsed form, the tail read and the
\* clock
NewSession(id, in, tail, timestamp) ==
    LET data == DataOf(in.date, in.subject, in.duration, in.status)
        mined == mine_block(tail.block_number, StrfTime(timestamp),
                            tail.prev_hash, data, DIFFICULTY)
    IN  [id |-> id,
         user_id |-> in.user_id,
         date |-> in.date,
         subject |-> in.subject,
         duration |-> in.duration,
         status |-> in.status,
         block_number |-> tail.block_number,
         timestamp |-> timestamp,
         hash |-> mined[1],
         prev_hash |-> tail.prev_hash,
         nonce |-> mined[2],
         difficulty |-> DIFFICULTY]

NoCall == [pc |-> "none"]

Init ==
    /\ blocks = <<>>
    /\ now = 0
    /\ resp = ""
    /\ req = [t \in Threads |-> Idle]
    /\ call = NoCall

\* DashboardPost refusing a block whose mined hash misses the target.
DashboardPostStrict(user_id, form) ==
    /\ \A t \in Threads : req[t] = Idle
    /\ IF Rejection(user_id, form) # "ok"
       THEN /\ resp' = Rejection(user_id, form)
            /\ UNCHANGED blocks
       ELSE /\ Len(blocks) < MaxRows
            /\ \E tail \in Tails(blocks, user_id) :
                 LET new == NewSession(Len(blocks) + 1,
                                       Parsed(user_id, form), tail, now)
                 IN  IF StartsWith(new.hash, Repeat("0", DIFFICULTY))
                     THEN /\ blocks' = Append(blocks, new)
                          /\ resp' = "Block mined successfully!"
                     ELSE /\ resp' = "Failed to add session"
                          /\ UNCHANGED blocks
    /\ UNCHANGED <<now, req, call>>

\* A dashboard POST (lines 236-316) served from start to end with no other
\* request in between.
DashboardPost(user_id, form) ==
    /\ \A t \in Threads : req[t] = Idle
    /\ IF Rejection(user_id, form) # "ok"
       THEN /\ resp' = Rejection(user_id, form)
            /\ UNCHANGED blocks
       ELSE /\ Len(blocks) < MaxRows
            /\ \E tail \in Tails(blocks, user_id) :
                 blocks' = Append(blocks,
                                  NewSession(Len(blocks) + 1,
                                             Parsed(user_id, form), tail, now))
            /\ resp' = "Block mined successfully!"
    /\ UNCHANGED <<now, req, call>>

\* A dashboard POST on worker thread t, up to the query of the chain tail
\* (lines 238-274).
DashboardRead(t, user_id, form) ==
    /\ req[t] = Idle
    /\ IF Rejection(user_id, form) # "ok"
       THEN /\ resp' = Rejection(user_id, form)
            /\ UNCHANGED req
       ELSE /\ Len(blocks) < MaxRows
            /\ \E tail \in Tails(blocks, user_id) :
                 req' = [req EXCEPT ![t] = [pc |-> "mine",
                                            in |-> Parsed(user_id, form),
                                            tail |-> tail]]
            /\ UNCHANGED resp
    /\ UNCHANGED <<blocks, now, call>>

\* DashboardCommit committing the payload first and the chain fields in a
\* second transaction.
DashboardCommitInParts(t) ==
    /\ req[t].pc \in {"mine", "fill"}
    /\ IF req[t].pc = "mine"
       THEN /\ Len(blocks) < MaxRows
            /\ blocks' = Append(blocks,
                   [NewSession(Len(blocks) + 1, req[t].in, req[t].tail, now)
                       EXCEPT !.hash = <<>>, !.nonce = 0])
            /\ req' = [req EXCEPT ![t] = [pc |-> "fill", in |-> req[t].in,
                                          tail |-> req[t].tail,
                                          id |-> Len(blocks) + 1]]
            /\ UNCHANGED resp
       ELSE /\ blocks' = [blocks EXCEPT ![req[t].id] =
                   NewSession(req[t].id, req[t].in, req[t].tail,
                              blocks[req[t].id].timestamp)]
            /\ resp' = "Block mined successfully!"
            /\ req' = [req EXCEPT ![t] = Idle]
    /\ UNCHANGED <<now, call>>

\* The rest of that POST (lines 276-308): mine, insert, commit.
DashboardCommit(t) ==
    /\ req[t].pc = "mine"
    /\ Len(blocks) < MaxRows
    /\ blocks' = Append(blocks,
                        NewSession(Len(blocks) + 1, req[t].in, req[t].tail, now))
    /\ resp' = "Block mined successfully!"
    /\ req' = [req EXCEPT ![t] = Idle]
    /\ UNCHANGED <<now, call>>

\* UpdateStatus without the test of the row's owner.
UpdateStatusAnyOwner(user_id, session_id) ==
    /\ IF user_id = 0
       THEN UNCHANGED <<blocks, resp>>
       ELSE IF session_id \in 1..Len(blocks)
       THEN /\ blocks' = [blocks EXCEPT ![session_id].status = Completed]
            /\ resp' = "Session marked as completed!"
       ELSE /\ resp' = "Session not found"
            /\ UNCHANGED blocks
    /\ UNCHANGED <<now, req, call>>

\* UpdateStatus putting a completed session back to pending.
UpdateStatusToggle(user_id, session_id) ==
    /\ IF user_id = 0
       THEN UNCHANGED <<blocks, resp>>
       ELSE IF session_id \in 1..Len(blocks)
               /\ blocks[session_id].user_id = user_id
       THEN /\ blocks' = [blocks EXCEPT ![session_id].status =
                             IF @ = Completed THEN Pending ELSE Completed]
            /\ resp' = "Session marked as completed!"
       ELSE /\ resp' = "Session not found"
            /\ UNCHANGED blocks
    /\ UNCHANGED <<now, req, call>>

\* UpdateStatus mining the block again over the new status.
UpdateStatusRemines(user_id, session_id) ==
    /\ IF user_id = 0
       THEN UNCHANGED <<blocks, resp>>
       ELSE IF session_id \in 1..Len(blocks)
               /\ blocks[session_id].user_id = user_id
       THEN /\ blocks' = [blocks EXCEPT ![session_id] =
                   LET r == blocks[session_id]
                       mined == mine_block(r.block_number, StrfTime(r.timestamp),
                                           r.prev_hash,
                                           DataOf(r.date, r.subject, r.duration,
                                                  Completed),
                                           r.difficulty)
                   IN  [r EXCEPT !.status = Completed, !.hash = mined[1],
                                 !.nonce = mined[2]]]
            /\ resp' = "Session marked as completed!"
       ELSE /\ resp' = "Session not found"
            /\ UNCHANGED blocks
    /\ UNCHANGED <<now, req, call>>

\* update_status (lines 405-422)
UpdateStatus(user_id, session_id) ==
    /\ IF user_id = 0
       THEN UNCHANGED <<blocks, resp>>
       ELSE IF session_id \in 1..Len(blocks)
               /\ blocks[session_id].user_id = user_id
       THEN /\ blocks' = [blocks EXCEPT ![session_id].status = Completed]
            /\ resp' = "Session marked as completed!"
       ELSE /\ resp' = "Session not found"
            /\ UNCHANGED blocks
    /\ UNCHANGED <<now, req, call>>

\* DeleteSession performing the deletion it warns about.
DeleteSessionRemoves(user_id, session_id) ==
    /\ resp' = IF user_id = 0 THEN resp
               ELSE "Warning: Deleting blocks from a blockchain breaks the chain integrity!"
    /\ blocks' = IF user_id = 0 THEN blocks
                 ELSE SelectSeq(blocks, LAMBDA r : ~(r.id = session_id
                                                     /\ r.user_id = user_id))
    /\ UNCHANGED <<now, req, call>>

\* delete_session (lines 424-430)
DeleteSession(user_id, session_id) ==
    /\ resp' = IF user_id = 0 THEN resp
               ELSE "Warning: Deleting blocks from a blockchain breaks the chain integrity!"
    /\ UNCHANGED <<blocks, now, req, call>>

\* api_verify_chain (lines 397-403)
ApiVerifyChain(user_id) ==
    /\ resp' = IF user_id = 0 THEN "Not authenticated"
               ELSE verify_chain(blocks, user_id).message
    /\ UNCHANGED <<blocks, now, req, call>>

\* datetime.utcnow() advances
Tick ==
    /\ now < MaxTime
    /\ now' = now + 1
    /\ UNCHANGED <<blocks, resp, req, call>>

Other ==
    \/ \E u \in SessionUsers, id \in 1..MaxRows : UpdateStatus(u, id)
    \/ \E u \in SessionUsers, id \in 1..MaxRows : DeleteSession(u, id)
    \/ \E u \in SessionUsers : ApiVerifyChain(u)
    \/ Tick

\* Requests served one at a time.
Next ==
    \/ \E u \in SessionUsers, f \in Forms : DashboardPost(u, f)
    \/ Other

Spec == Init /\ [][Next]_vars

\* Requests served by concurrent worker threads.
ConcNext ==
    \/ \E t \in Threads, u \in SessionUsers, f \in Forms : DashboardRead(t, u, f)
    \/ \E t \in Threads : DashboardCommit(t)
    \/ Other

ConcSpec == Init /\ [][ConcNext]_vars

\* Only dashboard POSTs, served one at a time, and the clock.
AppendNext ==
    \/ \E u \in SessionUsers, f \in Forms : DashboardPost(u, f)
    \/ Tick

AppendSpec == Init /\ [][AppendNext]_vars

\* The request handlers served one at a time with the clock standing still.
HandlerNext ==
    \/ \E u \in SessionUsers, f \in Forms : DashboardPost(u, f)
    \/ \E u \in SessionUsers, id \in 1..MaxRows : UpdateStatus(u, id)
    \/ \E u \in SessionUsers, id \in 1..MaxRows : DeleteSession(u, id)
    \/ \E u \in SessionUsers : ApiVerifyChain(u)

HandlerSpec == Init /\ [][HandlerNext]_vars

---------------------------------------------------------------------------
\* mine_block called on its own, on arguments of the kinds dashboard() passes
\* and with every difficulty up to MaxDifficulty.

MineData ==
    { DataOf(1, <<"M">>, 12, Pending), DataOf(2, <<"P">>, 60, Late),
      DataOf(1, <<"M">>, 12, Completed) }

MinePrevHashes ==
    { ZeroHash } \cup
    { calculate_hash(1, StrfTime(0), ZeroHash, d, n, DIFFICULTY) :
        d \in MineData, n \in {0, MAX_NONCE} }

MineCalls ==
    [pc : {"called"}, block_number : 1..MaxRows, timestamp : 0..MaxTime,
     prev_hash : MinePrevHashes, data : MineData,
     difficulty : 0..MaxDifficulty]

MineInit ==
    /\ blocks = <<>>
    /\ now = 0
    /\ resp = ""
    /\ req = [t \in Threads |-> Idle]
    /\ call \in MineCalls

MineBlock ==
    /\ call.pc = "called"
    /\ LET mined == mine_block(call.block_number, StrfTime(call.timestamp),
                               call.prev_hash, call.data, call.difficulty)
       IN  call' = [pc |-> "returned",
                    block_number |-> call.block_number,
                    timestamp |-> call.timestamp,
                    prev_hash |-> call.prev_hash,
                    data |-> call.data,
                    difficulty |-> call.difficulty,
                    hash |-> mined[1],
                    nonce |-> mined[2]]
    /\ UNCHANGED <<blocks, now, resp, req>>

MineSpec == MineInit /\ [][MineBlock]_vars

---------------------------------------------------------------------------
\* The loop of mine_block (lines 88-98) one iteration at a time; `tested`
\* counts the nonces tested by line 93.

LoopCalls ==
    {[pc |-> "loop", block_number |-> c.block_number,
      timestamp |-> c.timestamp, prev_hash |-> c.prev_hash, data |-> c.data,
      difficulty |-> c.difficulty, nonce |-> 0, tested |-> 0, hash |-> <<>>] :
        c \in {m \in MineCalls : m.timestamp = 0}}

MineLoopInit ==
    /\ blocks = <<>>
    /\ now = 0
    /\ resp = ""
    /\ req = [t \in Threads |-> Idle]
    /\ call \in LoopCalls

\* MineIterate without `nonce += 1`.
MineIterateNoIncrement ==
    /\ call.pc = "loop"
    /\ call.nonce < MAX_NONCE
    /\ LET hash_result == calculate_hash(call.block_number,
                                         StrfTime(call.timestamp),
                                         call.prev_hash, call.data,
                                         call.nonce, call.difficulty)
       IN  IF StartsWith(hash_result, Repeat("0", call.difficulty))
           THEN call' = [call EXCEPT !.pc = "returned", !.hash = hash_result,
                                     !.tested = @ + 1]
           ELSE call' = call
    /\ UNCHANGED <<blocks, now, resp, req>>

\* one pass through the body of `while nonce < MAX_NONCE` (lines 91-95)
MineIterate ==
    /\ call.pc = "loop"
    /\ call.nonce < MAX_NONCE
    /\ LET hash_result == calculate_hash(call.block_number,
                                         StrfTime(call.timestamp),
                                         call.prev_hash, call.data,
                                         call.nonce, call.difficulty)
       IN  IF StartsWith(hash_result, Repeat("0", call.difficulty))
           THEN call' = [call EXCEPT !.pc = "returned", !.hash = hash_result,
                                     !.tested = @ + 1]
           ELSE call' = [call EXCEPT !.nonce = @ + 1, !.tested = @ + 1]
    /\ UNCHANGED <<blocks, now, resp, req>>

\* the loop condition fails: the return of line 98
MineExit ==
    /\ call.pc = "loop"
    /\ ~(call.nonce < MAX_NONCE)
    /\ call' = [call EXCEPT !.pc = "returned",
                            !.hash = calculate_hash(call.block_number,
                                                    StrfTime(call.timestamp),
                                                    call.prev_hash, call.data,
                                                    call.nonce, call.difficulty)]
    /\ UNCHANGED <<blocks, now, resp, req>>

MineLoopNext == MineIterate \/ MineExit

\* the thread in the loop keeps running
MineLoopSpec ==
    MineLoopInit /\ [][MineLoopNext]_vars /\ WF_vars(MineLoopNext)

---------------------------------------------------------------------------
\* The tamper tests: a chain is built with dashboard POSTs and update_status
\* calls, one stored row is then edited behind the application's back, and
\* both verifiers are run on the table.

TamperDates == {1, 2, 3}
TamperSubjects == {<<"M">>, <<"P">>, <<"M", "1">>}
TamperDurations == {1, 12, 60}
TamperStatuses == {Pending, Completed, Late}

\* the rows that differ from r in exactly one payload field
PayloadEdits(r) ==
    {[r EXCEPT !.date = d] : d \in TamperDates \ {r.date}}
    \cup {[r EXCEPT !.subject = x] : x \in TamperSubjects \ {r.subject}}
    \cup {[r EXCEPT !.duration = n] : n \in TamperDurations \ {r.duration}}
    \cup {[r EXCEPT !.status = x] : x \in TamperStatuses \ {r.status}}

\* digests to put in place of a stored one: the sentinel, the hashes stored in
\* the table and a digest of nothing in it
LinkValues(tbl) ==
    {ZeroHash, Sha256(<<"x">>)} \cup {tbl[i].hash : i \in 1..Len(tbl)}

\* the rows that differ from r in prev_hash alone
LinkEdits(tbl, r) ==
    {[r EXCEPT !.prev_hash = v] : v \in LinkValues(tbl) \ {r.prev_hash}}

\* the rows that differ from r in the stored hash alone
HashEdits(tbl, r) ==
    {[r EXCEPT !.hash = v] : v \in LinkValues(tbl) \ {r.hash}}

\* the rows that differ from r in the stored difficulty alone
DifficultyEdits(r) ==
    {[r EXCEPT !.difficulty = d] : d \in (0..(DIFFICULTY + 1)) \ {r.difficulty}}

\* the digest of a row's own stored fields, in the order block_number,
\* timestamp, prev_hash, date+subject+duration+status, nonce, difficulty
FieldsDigest(r) ==
    Sha256(Str(r.block_number) \o StrfTime(r.timestamp) \o r.prev_hash
           \o DateStr(r.date) \o r.subject \o Str(r.duration) \o r.status
           \o Str(r.nonce) \o Str(r.difficulty))

\* the row with its hash recomputed from its fields as they stand
Resealed(r) == [r EXCEPT !.hash = FieldsDigest(r)]

EditKinds ==
    {"payload", "link", "hash", "difficulty", "relink", "redifficulty"}

\* the edits of each kind of row r of table tbl; "relink" and "redifficulty"
\* recompute the hash after the edit
Edits(kind, tbl, r) ==
    CASE kind = "payload" -> PayloadEdits(r)
      [] kind = "link" -> LinkEdits(tbl, r)
      [] kind = "hash" -> HashEdits(tbl, r)
      [] kind = "difficulty" -> DifficultyEdits(r)
      [] kind = "relink" -> {Resealed(x) : x \in LinkEdits(tbl, r)}
      [] kind = "redifficulty" -> {Resealed(x) : x \in DifficultyEdits(r)}

\* the table with row id replaced by r
WithRow(tbl, id, r) == [tbl EXCEPT ![id] = r]

\* the forms of Forms that dashboard() accepts
AcceptedForms == {f \in Forms : Rejection(1, f) = "ok"}

\* One row is rewritten in the database file; the table as it was is kept in
\* call for the comparison.
Tamper(id, kind) ==
    /\ call = NoCall
    /\ id \in 1..Len(blocks)
    /\ \E r \in Edits(kind, blocks, blocks[id]) :
          blocks' = WithRow(blocks, id, r)
    /\ call' = [pc |-> "tampered", before |-> blocks, id |-> id, kind |-> kind]
    /\ UNCHANGED <<now, resp, req>>

\* verify_chain (app.py lines 100-131) and verify_user_chain
\* (blockchain_utils.py lines 33-70) run for one user on the table as it is
VerifyChains(user_id) ==
    /\ call.pc \in {"none", "tampered"}
    /\ call' = [pc |-> "verified",
                before |-> IF call.pc = "none" THEN blocks ELSE call.before,
                id |-> IF call.pc = "none" THEN 0 ELSE call.id,
                kind |-> IF call.pc = "none" THEN "none" ELSE call.kind,
                user_id |-> user_id,
                fast |-> verify_chain(blocks, user_id),
                batch |-> verify_user_chain(blocks, user_id)]
    /\ UNCHANGED <<blocks, now, resp, req>>

\* the chain is built by accepted POSTs and by update_status calls on rows
\* not yet completed, then tampered with at most once, then verified
TamperNext ==
    \/ \E u \in Users, f \in AcceptedForms : call = NoCall /\ DashboardPost(u, f)
    \/ \E id \in 1..MaxRows :
          /\ call = NoCall
          /\ id <= Len(blocks)
          /\ blocks[id].status # Completed
          /\ UpdateStatus(blocks[id].user_id, id)
    \/ \E id \in 1..MaxRows, kind \in EditKinds : Tamper(id, kind)
    \/ \E u \in Users : VerifyChains(u)

TamperSpec == Init /\ [][TamperNext]_vars

---------------------------------------------------------------------------
\* Accepted dashboard POSTs served by concurrent worker threads, with
\* verification requests in between.

RaceNext ==
    \/ \E t \in Threads, u \in Users, f \in AcceptedForms :
          DashboardRead(t, u, f)
    \/ \E t \in Threads : DashboardCommit(t)
    \/ \E u \in Users : ApiVerifyChain(u)

RaceSpec == Init /\ [][RaceNext]_vars

---------------------------------------------------------------------------
\* Properties.

RowIds == 1..Len(blocks)

\* C1: whatever the interleaving of dashboard POSTs, no two blocks of one
\* user have the same block_number and no two have the same prev_hash.
C1_NoDivergentTails ==
    \A i, j \in RowIds :
        (i # j /\ blocks[i].user_id = blocks[j].user_id)
            => /\ blocks[i].block_number # blocks[j].block_number
               /\ blocks[i].prev_hash # blocks[j].prev_hash

\* C2: with the requests served one at a time, the block numbers of each
\* user's blocks are 1..n without gap or duplicate, each append having taken
\* the user's highest block number plus one: the user's i-th block in
\* insertion order is numbered i.
C2_ContiguousNumbers ==
    \A u \in Users :
        LET rows == UserRows(blocks, u)
        IN  /\ \A i \in 1..Len(rows) : rows[i].block_number = i
            /\ {rows[i].block_number : i \in 1..Len(rows)} = 1..Len(rows)

C2_Witness ==
    \E u \in Users :
        /\ Len(UserRows(blocks, u)) >= 2
        /\ \E i \in RowIds : blocks[i].user_id = u /\ blocks[i].status = Completed
        /\ resp = "Warning: Deleting blocks from a blockchain breaks the chain integrity!"

\* C3: with the requests served one at a time, each user's block 1 has the
\* all-zero sentinel as prev_hash and each block k > 1 has the stored hash of
\* that user's block k-1 as prev_hash.
C3_LinkedToPredecessor ==
    \A i \in RowIds :
        IF blocks[i].block_number = 1
        THEN /\ blocks[i].prev_hash = ZeroHash
             /\ \A c \in 1..Len(blocks[i].prev_hash) : blocks[i].prev_hash[c] = "0"
        ELSE \E j \in RowIds :
                /\ blocks[j].user_id = blocks[i].user_id
                /\ blocks[j].block_number = blocks[i].block_number - 1
                /\ blocks[i].prev_hash = blocks[j].hash

C3_Witness ==
    \E i, j \in RowIds :
        /\ blocks[i].user_id = blocks[j].user_id
        /\ blocks[i].block_number = 1
        /\ blocks[j].block_number = 2
        /\ blocks[j].prev_hash = blocks[i].hash
        /\ blocks[i].status = Completed

\* a string's first n characters are all '0' (false when it is shorter)
LeadingZeros(s, n) == \A c \in 1..n : c <= Len(s) /\ s[c] = "0"

ValidVerdict == [valid |-> TRUE, block |-> 0, message |-> "Blockchain is valid"]

\* C4 as stated: after any sequence of appends alone, every user's chain
\* verifies as valid and each block passes the hash, link and difficulty
\* checks.
C4_AppendsVerify ==
    \A u \in Users :
        LET s == OrderedSessions(blocks, u)
        IN  Len(s) > 0 =>
                /\ verify_chain(blocks, u) = ValidVerdict
                /\ \A i \in 1..Len(s) :
                      /\ ~HashCheckFails(s, i)
                      /\ ~LinkCheckFails(s, i)
                      /\ ~DifficultyCheckFails(s, i)

\* C4 as amended: after any sequence of appends alone, each block passes the
\* hash check and the link check; each block whose nonce is below MAX_NONCE
\* passes the difficulty check too; the chain verifies as valid if every hash
\* has its DIFFICULTY leading zeros, and otherwise verify_chain names the
\* first block that has not, with the difficulty message.
C4_AppendsVerifyUnlessCeiling ==
    \A u \in Users :
        LET s == OrderedSessions(blocks, u)
            short == {i \in 1..Len(s) : ~LeadingZeros(s[i].hash, DIFFICULTY)}
        IN  Len(s) > 0 =>
                /\ \A i \in 1..Len(s) :
                      /\ ~HashCheckFails(s, i)
                      /\ ~LinkCheckFails(s, i)
                      /\ s[i].nonce < MAX_NONCE => ~DifficultyCheckFails(s, i)
                      /\ i \in short => s[i].nonce = MAX_NONCE
                /\ short = {} => verify_chain(blocks, u) = ValidVerdict
                /\ \A i \in short :
                      (\A j \in short : i <= j) =>
                          verify_chain(blocks, u) =
                              [valid |-> FALSE, block |-> s[i].block_number,
                               message |-> "doesn't meet difficulty requirement"]

C4_Witness ==
    \E u \in Users :
        /\ Len(UserRows(blocks, u)) >= 2
        /\ verify_chain(blocks, u) = ValidVerdict
        /\ resp = "Block mined successfully!"

\* C5: whatever the difficulty and the other arguments, mine_block returns a
\* hash that starts with `difficulty` zeros, or it returns nonce = MAX_NONCE;
\* the nonce returned is never above MAX_NONCE.
C5_CompliantOrCeiling ==
    call.pc = "returned" =>
        /\ LeadingZeros(call.hash, call.difficulty) \/ call.nonce = MAX_NONCE
        /\ call.nonce \in 0..MAX_NONCE

C5_Witness ==
    /\ call.pc = "returned"
    /\ call.difficulty >= 2
    /\ call.nonce > 0
    /\ call.nonce < MAX_NONCE
    /\ LeadingZeros(call.hash, call.difficulty)

\* the digest of the arguments of the mine_block call with nonce n
CallDigest(n) ==
    Sha256(Str(call.block_number) \o StrfTime(call.timestamp)
           \o call.prev_hash \o call.data \o Str(n) \o Str(call.difficulty))

\* C19: when mine_block returns a nonce n below MAX_NONCE, the hash returned
\* is the digest for n, it starts with `difficulty` zeros, and the digest for
\* no nonce below n does; with difficulty 0 the nonce returned is 0.
C19_SmallestCompliantNonce ==
    call.pc = "returned" =>
        /\ call.nonce < MAX_NONCE =>
              /\ call.hash = CallDigest(call.nonce)
              /\ LeadingZeros(call.hash, call.difficulty)
              /\ \A m \in 0..(call.nonce - 1) :
                    ~LeadingZeros(CallDigest(m), call.difficulty)
        /\ call.difficulty = 0 => call.nonce = 0

C19_Witness ==
    /\ call.pc = "returned"
    /\ call.difficulty = 1
    /\ call.nonce = 2
    /\ LeadingZeros(call.hash, 1)
    /\ ~LeadingZeros(CallDigest(1), 1)

\* C20: every call of mine_block returns, having tested at most MAX_NONCE
\* nonces in its loop, with the result the append uses: the handler, which
\* has no other loop, goes on to its commit.
C20_MiningTerminates ==
    /\ [](call.tested <= MAX_NONCE)
    /\ <>(call.pc = "returned")
    /\ [](call.pc = "returned" =>
            <<call.hash, call.nonce>> =
                mine_block(call.block_number, StrfTime(call.timestamp),
                           call.prev_hash, call.data, call.difficulty))

C20_Witness ==
    /\ call.pc = "returned"
    /\ call.tested = MAX_NONCE
    /\ call.nonce = MAX_NONCE
    /\ call.difficulty = MaxDifficulty
    /\ ~LeadingZeros(call.hash, call.difficulty)

---------------------------------------------------------------------------
\* The verifiers on tampered tables (TamperSpec).

\* the rows of user u in table tbl
RowsOf(tbl, u) == {tbl[i] : i \in {j \in 1..Len(tbl) : tbl[j].user_id = u}}

\* p is the block before r in block_number order among the rows of r's user
Precedes(tbl, p, r) ==
    /\ p \in RowsOf(tbl, r.user_id)
    /\ p.block_number < r.block_number
    /\ \A q \in RowsOf(tbl, r.user_id) :
          ~(p.block_number < q.block_number /\ q.block_number < r.block_number)

\* row r passes the three checks, stated on the table
RowPasses(tbl, r) ==
    /\ r.hash = FieldsDigest(r)
    /\ \A p \in RowsOf(tbl, r.user_id) : Precedes(tbl, p, r) => r.prev_hash = p.hash
    /\ LeadingZeros(r.hash, r.difficulty)

\* both verifiers have run for the owner of a row edited in the way `kind`,
\* whose chain verified as valid before the edit
TamperedValid(kind) ==
    /\ call.pc = "verified"
    /\ call.kind = kind
    /\ blocks[call.id].user_id = call.user_id
    /\ verify_chain(call.before, call.user_id).valid

\* C6: in a chain that verifies as valid, changing one payload field (date,
\* subject, duration or status) of block k to another value, the rest left as
\* it is, makes verify_chain return invalid, naming block k with "invalid
\* hash", while the blocks before k still pass their checks.
C6_PayloadTamperDetected ==
    TamperedValid("payload") =>
        LET r == blocks[call.id]
        IN  /\ call.fast = [valid |-> FALSE, block |-> r.block_number,
                            message |-> "has invalid hash"]
            /\ \A p \in RowsOf(blocks, call.user_id) :
                  p.block_number < r.block_number => RowPasses(blocks, p)

C6_Witness ==
    /\ TamperedValid("payload")
    /\ blocks[call.id].block_number = 2
    /\ blocks[call.id].duration # call.before[call.id].duration
    /\ call.fast = [valid |-> FALSE, block |-> 2, message |-> "has invalid hash"]

\* e is one of the entries of the error list errors
Listed(errors, e) == \E n \in 1..Len(errors) : errors[n] = e

\* C7 as stated: in a chain that verifies as valid, changing the prev_hash of
\* block k > 1 to a value other than block k-1's hash makes verification
\* flag block k with "broken chain link", block k-1 still passing its checks.
C7_LinkBreakFlagged ==
    (TamperedValid("link") /\ blocks[call.id].block_number > 1) =>
        LET r == blocks[call.id]
        IN  /\ call.fast = [valid |-> FALSE, block |-> r.block_number,
                            message |-> "has broken chain link"]
            /\ \A p \in RowsOf(blocks, call.user_id) :
                  Precedes(blocks, p, r) => RowPasses(blocks, p)

\* C7 as amended: that change makes verify_chain return invalid naming block
\* k, with "invalid hash" (the hash check comes first and the digest covers
\* prev_hash); verify_user_chain lists "Invalid hash" and then "Broken chain
\* link" for block k and nothing else; block k-1 still passes its checks.
C7_LinkBreakReportedAsHash ==
    (TamperedValid("link") /\ blocks[call.id].block_number > 1) =>
        LET r == blocks[call.id]
            k == r.block_number
        IN  /\ call.fast = [valid |-> FALSE, block |-> k,
                            message |-> "has invalid hash"]
            /\ call.batch.errors =
                  << [block |-> k, message |-> "Invalid hash"],
                     [block |-> k, message |-> "Broken chain link"] >>
            /\ \A p \in RowsOf(blocks, call.user_id) :
                  Precedes(blocks, p, r) => RowPasses(blocks, p)

C7_Witness ==
    /\ TamperedValid("link")
    /\ blocks[call.id].block_number = 2
    /\ blocks[call.id].prev_hash = ZeroHash
    /\ Listed(call.batch.errors, [block |-> 2, message |-> "Broken chain link"])

\* C8: a block whose stored hash is the digest of its stored fields and whose
\* prev_hash is the hash of the block before it, but whose hash does not
\* start with its `difficulty` zeros, is flagged for the difficulty: the
\* verifier's pass over that block returns "doesn't meet difficulty
\* requirement" for it, which is what verify_chain returns when no earlier
\* block fails a check, and verify_user_chain lists it for that block.
C8_DifficultyFlagged ==
    call.pc = "verified" =>
        LET s == OrderedSessions(blocks, call.user_id)
        IN  \A i \in 1..Len(s) :
                ( /\ s[i].hash = FieldsDigest(s[i])
                  /\ i > 1 => s[i].prev_hash = s[i - 1].hash
                  /\ ~LeadingZeros(s[i].hash, s[i].difficulty) )
                =>
                /\ VerifyFrom(s, i) =
                      [valid |-> FALSE, block |-> s[i].block_number,
                       message |-> "doesn't meet difficulty requirement"]
                /\ (\A j \in 1..(i - 1) : RowPasses(blocks, s[j]))
                      => call.fast =
                            [valid |-> FALSE, block |-> s[i].block_number,
                             message |-> "doesn't meet difficulty requirement"]
                /\ ~call.batch.valid
                /\ Listed(call.batch.errors,
                          [block |-> s[i].block_number,
                           message |-> "Doesn't meet difficulty requirement"])

C8_Witness ==
    /\ call.pc = "verified"
    /\ call.kind = "redifficulty"
    /\ LET s == OrderedSessions(blocks, call.user_id)
       IN  /\ Len(s) >= 2
           /\ s[2] = blocks[call.id]
           /\ s[2].hash = FieldsDigest(s[2])
           /\ s[2].prev_hash = s[1].hash
           /\ ~LeadingZeros(s[2].hash, s[2].difficulty)
           /\ call.fast = [valid |-> FALSE, block |-> 2,
                           message |-> "doesn't meet difficulty requirement"]

\* C9: verify_chain returns valid exactly when every block of the user has
\* the digest of its own stored fields as hash, has the hash of the block
\* before it in block_number order as prev_hash, and has a hash starting with
\* its own stored difficulty count of zeros; on no blocks it returns valid.
C9_ValidIffAllChecksPass ==
    call.pc = "verified" =>
        LET rows == RowsOf(blocks, call.user_id)
        IN  /\ call.fast.valid <=> \A r \in rows : RowPasses(blocks, r)
            /\ rows = {}
                  => call.fast = [valid |-> TRUE, block |-> 0,
                                  message |-> "No blocks to verify"]
            /\ (rows # {} /\ call.fast.valid) => call.fast = ValidVerdict

C9_Witness ==
    /\ call.pc = "verified"
    /\ call.kind = "relink"
    /\ verify_chain(call.before, call.user_id) = ValidVerdict
    /\ call.fast = [valid |-> FALSE, block |-> 2, message |-> "has broken chain link"]

\* the checks that fail in the ordered blocks s, as <<index, check>> with
\* check 1 the hash, 2 the link, 3 the difficulty
FailedChecks(s) ==
    {f \in (1..Len(s)) \X (1..3) :
        \/ f[2] = 1 /\ s[f[1]].hash # FieldsDigest(s[f[1]])
        \/ f[2] = 2 /\ f[1] > 1 /\ s[f[1]].prev_hash # s[f[1] - 1].hash
        \/ f[2] = 3 /\ ~LeadingZeros(s[f[1]].hash, s[f[1]].difficulty)}

\* the place of f among the failed checks, in block order, then check order
Rank(failed, f) ==
    1 + Cardinality({g \in failed :
                        g[1] < f[1] \/ (g[1] = f[1] /\ g[2] < f[2])})

BatchMessages ==
    <<"Invalid hash", "Broken chain link", "Doesn't meet difficulty requirement">>
FastMessages ==
    <<"has invalid hash", "has broken chain link",
      "doesn't meet difficulty requirement">>

\* C10: verify_chain and verify_user_chain give the same verdict on every
\* chain; the batch error list has one entry for each failed check of each
\* block, in block order and within a block in the order hash, link,
\* difficulty; the count it reports is the length of that list; and the
\* fail-fast message names the block and the check of the list's first entry.
C10_VerifiersAgree ==
    call.pc = "verified" =>
        LET s == OrderedSessions(blocks, call.user_id)
            fast == call.fast
            batch == call.batch
            failed == FailedChecks(s)
        IN  /\ fast.valid = batch.valid
            /\ Len(batch.errors) = Cardinality(failed)
            /\ \A f \in failed :
                  batch.errors[Rank(failed, f)] =
                      [block |-> s[f[1]].block_number,
                       message |-> BatchMessages[f[2]]]
            /\ batch.count = Len(batch.errors)
            /\ batch.valid <=> batch.errors = <<>>
            /\ ~fast.valid =>
                  \E c \in 1..3 :
                      /\ batch.errors[1].message = BatchMessages[c]
                      /\ fast.message = FastMessages[c]
                      /\ fast.block = batch.errors[1].block

C10_Witness ==
    /\ call.pc = "verified"
    /\ Len(call.batch.errors) >= 3
    /\ call.batch.errors[1].block = 1
    /\ call.batch.errors[Len(call.batch.errors)].block = 2
    /\ call.fast.block = 1
    /\ ~call.fast.valid

\* check c (1 the hash, 2 the link, 3 the difficulty) fails for s[i]
CheckFails(s, i, c) ==
    CASE c = 1 -> s[i].hash # FieldsDigest(s[i])
      [] c = 2 -> i > 1 /\ s[i].prev_hash # s[i - 1].hash
      [] c = 3 -> ~LeadingZeros(s[i].hash, s[i].difficulty)

\* the first check that fails for s[i] in the order hash, link, difficulty;
\* 0 when none does
FirstCheck(s, i) ==
    IF CheckFails(s, i, 1) THEN 1
    ELSE IF CheckFails(s, i, 2) THEN 2
    ELSE IF CheckFails(s, i, 3) THEN 3
    ELSE 0

\* <<index, check>> of the first failed check from s[i] on; <<0, 0>> when
\* every check passes
RECURSIVE FirstFailure(_, _)
FirstFailure(s, i) ==
    IF i > Len(s) THEN <<0, 0>>
    ELSE IF FirstCheck(s, i) # 0 THEN <<i, FirstCheck(s, i)>>
    ELSE FirstFailure(s, i + 1)

\* C18: when some check fails, verify_chain names the lowest-numbered block
\* that fails a check and, for that block, the first failing check in the
\* order hash, link, difficulty; the blocks after it have no part in the
\* result, which is the one verification gives on the chain cut after that
\* block.
C18_FirstFailureOnly ==
    call.pc = "verified" =>
        LET s == OrderedSessions(blocks, call.user_id)
            f == FirstFailure(s, 1)
        IN  f[1] # 0 =>
                /\ call.fast = [valid |-> FALSE,
                                block |-> s[f[1]].block_number,
                                message |-> FastMessages[f[2]]]
                /\ \A j \in 1..Len(s) :
                      j > f[1] => s[f[1]].block_number <= s[j].block_number
                /\ VerifySessions(SubSeq(s, 1, f[1])) = call.fast

C18_Witness ==
    /\ call.pc = "verified"
    /\ call.kind = "difficulty"
    /\ blocks[call.id].block_number = 2
    /\ blocks[call.id].user_id = call.user_id
    /\ call.fast = [valid |-> FALSE, block |-> 1, message |-> "has invalid hash"]
    /\ Cardinality(FailedChecks(OrderedSessions(blocks, call.user_id))) >= 2

---------------------------------------------------------------------------
\* What the handlers leave alone (HandlerSpec).

DeleteWarning ==
    "Warning: Deleting blocks from a blockchain breaks the chain integrity!"

\* rows r and q agree on every column but status
SameButStatus(r, q) ==
    /\ r.id = q.id
    /\ r.user_id = q.user_id
    /\ r.block_number = q.block_number
    /\ r.date = q.date
    /\ r.subject = q.subject
    /\ r.duration = q.duration
    /\ r.timestamp = q.timestamp
    /\ r.prev_hash = q.prev_hash
    /\ r.hash = q.hash
    /\ r.nonce = q.nonce
    /\ r.difficulty = q.difficulty

\* every row of the table is in the table after the step, with every column
\* but status as it was
RowsKept ==
    \A i \in 1..Len(blocks) :
        \E j \in 1..Len(blocks') : SameButStatus(blocks[i], blocks'[j])

\* C11: no step of an append, update_status, delete_session or verification
\* removes a committed block or changes its block_number, user_id, date,
\* subject, duration, timestamp, prev_hash, hash, nonce or difficulty; a step
\* that answers with the deletion warning leaves the whole table as it was.
C11_AppendOnly ==
    [][ /\ RowsKept
        /\ resp' = DeleteWarning => blocks' = blocks
      ]_vars

C11_Witness ==
    /\ Len(blocks) = MaxRows
    /\ resp = DeleteWarning
    /\ blocks[1].status = Completed
    /\ blocks[Len(blocks)].status = Late

\* what update_status(session_id) called by user_id may change: the status of
\* the row with that id when the row is the caller's, and nothing otherwise
StatusFrame(user_id, session_id) ==
    /\ Len(blocks') = Len(blocks)
    /\ \A i \in 1..Len(blocks) :
          IF i = session_id /\ blocks[i].user_id = user_id
          THEN /\ SameButStatus(blocks[i], blocks'[i])
               /\ blocks'[i].status = Completed
          ELSE blocks'[i] = blocks[i]

\* C12: update_status(session_id) called by user U changes the status of the
\* row with that id, and only when the row is U's; every other column of the
\* row and every other row stay as they are, and when the row does not exist
\* or is another user's the table stays as it is.
C12_UpdateStatusFrame ==
    [][ \A u \in SessionUsers, id \in 1..MaxRows :
            UpdateStatus(u, id) => StatusFrame(u, id)
      ]_vars

C12_Witness ==
    /\ Len(blocks) = 2
    /\ blocks[1].user_id # blocks[2].user_id
    /\ blocks[1].status = Pending
    /\ blocks[2].status = Completed
    /\ resp = "Session marked as completed!"

\* C13: the only change a step makes to the status of a committed row is from
\* 'pending' to 'completed': a row whose status is not 'pending' keeps its
\* status, a 'completed' row in particular.
C13_OnlyPendingToCompleted ==
    [][ \A i \in 1..Len(blocks) :
            (i <= Len(blocks') /\ blocks'[i].status # blocks[i].status)
                => /\ blocks[i].status = Pending
                   /\ blocks'[i].status = Completed
      ]_vars

\* the POST of form by user_id fails validation: no such user, a date that
\* does not parse, a duration that is no integer or is not positive, or a
\* subject that is empty once stripped
FailsValidation(user_id, form) ==
    \/ user_id \notin Users
    \/ ParseDate(form.date) = 0
    \/ ~IntOk(form.duration)
    \/ IntOf(form.duration) <= 0
    \/ Strip(form.subject) = <<>>

\* C14: a dashboard POST that fails validation adds no row and changes none,
\* and is not answered as a success: no step that changes the table or
\* answers with the success message is the POST of a form failing validation.
C14_RejectedPostChangesNothing ==
    [][ (blocks' # blocks \/ resp' = "Block mined successfully!")
            => \A u \in SessionUsers, f \in Forms :
                  FailsValidation(u, f) => ~DashboardPost(u, f)
      ]_vars

C14_Witness ==
    /\ Len(blocks) >= 1
    /\ blocks[1].status = Pending
    /\ resp = "Duration must be positive"

---------------------------------------------------------------------------
\* Appends that end at the mining ceiling (AppendSpec).

\* the largest block_number among the rows of user u, 0 when there is none
HighestNumber(tbl, u) ==
    LET numbers == {r.block_number : r \in RowsOf(tbl, u)}
    IN  IF numbers = {} THEN 0
        ELSE CHOOSE n \in numbers : \A m \in numbers : m <= n

\* the hash of u's row with the largest block_number, the sentinel when u has
\* no row
HighestHash(tbl, u) ==
    IF RowsOf(tbl, u) = {} THEN ZeroHash
    ELSE (CHOOSE r \in RowsOf(tbl, u) :
             r.block_number = HighestNumber(tbl, u)).hash

\* the row an accepted POST of form f by user u is to store when nonces
\* 0..MAX_NONCE-1 all miss the target, stated field by field
CeilingRow(u, f) ==
    LET date == ParseDate(f.date)
        subject == Strip(f.subject)
        duration == IF f.duration_unit = "hours"
                    THEN IntOf(f.duration) * 60 ELSE IntOf(f.duration)
        number == HighestNumber(blocks, u) + 1
        prev == HighestHash(blocks, u)
    IN  [id |-> Len(blocks) + 1, user_id |-> u, date |-> date,
         subject |-> subject, duration |-> duration, status |-> f.status,
         block_number |-> number, timestamp |-> now,
         hash |-> Sha256(Str(number) \o StrfTime(now) \o prev \o DateStr(date)
                         \o subject \o Str(duration) \o f.status
                         \o Str(MAX_NONCE) \o Str(DIFFICULTY)),
         prev_hash |-> prev, nonce |-> MAX_NONCE, difficulty |-> DIFFICULTY]

\* no nonce below MAX_NONCE gives that row a hash with DIFFICULTY zeros
CeilingMiss(u, f) ==
    \A n \in 0..(MAX_NONCE - 1) :
        ~LeadingZeros(FieldsDigest([CeilingRow(u, f) EXCEPT !.nonce = n]),
                      DIFFICULTY)

\* C15: when no nonce below MAX_NONCE meets the target, the POST still
\* succeeds: it appends the row with nonce MAX_NONCE and the hash computed
\* for that nonce, numbered one above the user's highest block and linked to
\* that block's hash, and answers with the success message.
C15_CeilingAppendPersists ==
    [][ \A u \in Users, f \in AcceptedForms :
            (DashboardPost(u, f) /\ CeilingMiss(u, f))
                => /\ blocks' = Append(blocks, CeilingRow(u, f))
                   /\ resp' = "Block mined successfully!"
      ]_vars

C15_Witness ==
    /\ Len(blocks) = 2
    /\ blocks[1].user_id = blocks[2].user_id
    /\ blocks[2].block_number = 2
    /\ blocks[2].prev_hash = blocks[1].hash
    /\ blocks[2].nonce = MAX_NONCE
    /\ ~LeadingZeros(blocks[2].hash, DIFFICULTY)
    /\ resp = "Block mined successfully!"

---------------------------------------------------------------------------
\* Concurrent appends (RaceSpec).

\* the tails that follow from the rows of user u alone
OwnTails(u) ==
    IF RowsOf(blocks, u) = {}
    THEN {[prev_hash |-> ZeroHash, block_number |-> 1]}
    ELSE {[prev_hash |-> r.hash, block_number |-> r.block_number + 1] :
            r \in {q \in RowsOf(blocks, u) :
                      q.block_number = HighestNumber(blocks, u)}}

\* C16: in any interleaving, an append for user A reads A's rows only (the
\* block_number and prev_hash it goes on with follow from A's rows) and the
\* step that commits it leaves every other user B's rows, B's next
\* block_number and prev_hash, and verify_chain(B) as they were.
C16_UsersIndependent ==
    [][ /\ \A t \in Threads :
              (req[t] = Idle /\ req'[t] # Idle)
                  => req'[t].tail \in OwnTails(req'[t].in.user_id)
        /\ Len(blocks') > Len(blocks) =>
              LET new == blocks'[Len(blocks')]
              IN  /\ \E t \in Threads :
                        /\ req[t] # Idle
                        /\ new.user_id = req[t].in.user_id
                        /\ new.block_number = req[t].tail.block_number
                        /\ new.prev_hash = req[t].tail.prev_hash
                  /\ \A b \in Users \ {new.user_id} :
                        /\ UserRows(blocks', b) = UserRows(blocks, b)
                        /\ Tails(blocks', b) = Tails(blocks, b)
                        /\ verify_chain(blocks', b) = verify_chain(blocks, b)
      ]_vars

C16_Witness ==
    /\ Len(blocks) = 2
    /\ blocks[1].user_id = 2
    /\ blocks[2].user_id = 1
    /\ blocks[2].block_number = 1
    /\ \E t \in Threads :
          /\ req[t] # Idle
          /\ req[t].in.user_id = 2
          /\ req[t].tail.block_number = 2

\* every column of row r is written, and the hash and the nonce are the ones
\* mined for the other columns
RowComplete(r) ==
    /\ r.block_number >= 1
    /\ r.date >= 1
    /\ Len(r.subject) > 0
    /\ r.duration > 0
    /\ Len(r.status) > 0
    /\ Len(r.prev_hash) = HashLen
    /\ Len(r.hash) = HashLen
    /\ r.nonce \in 0..MAX_NONCE
    /\ r.difficulty = DIFFICULTY
    /\ r.hash = FieldsDigest(r)
    /\ LeadingZeros(r.hash, r.difficulty) \/ r.nonce = MAX_NONCE

\* C17: whatever requests are in flight, the committed table that a
\* verification reads holds complete rows only: the block of an in-flight
\* append is either not in it or in it with block_number, prev_hash, hash,
\* nonce, difficulty and payload written together.
C17_AppendAllOrNothing ==
    \A i \in 1..Len(blocks) : RowComplete(blocks[i])

C17_Witness ==
    /\ resp = "Blockchain is valid"
    /\ Len(blocks) >= 1
    /\ \E t \in Threads :
          /\ req[t] # Idle
          /\ req[t].in.user_id = blocks[1].user_id
          /\ verify_chain(blocks, blocks[1].user_id) = ValidVerdict

---------------------------------------------------------------------------
\* What the handlers never mend (HandlerSpec).

\* C21: once verify_chain reports a user's chain invalid, it reports it
\* invalid after every further append, update_status and delete_session: no
\* request brings a failed chain back to valid.
C21_NeverRepaired ==
    [][ blocks' # blocks =>
          \A u \in Users :
              ~verify_chain(blocks, u).valid => ~verify_chain(blocks', u).valid
      ]_vars

\* a chain whose first block fails a check, with a block appended behind it
\* and the failing block then marked completed
C21_Witness ==
    /\ Len(blocks) = MaxRows
    /\ \A i \in 1..Len(blocks) : blocks[i].user_id = 1
    /\ ~verify_chain(blocks, 1).valid
    /\ verify_chain(blocks, 1).block = 1
    /\ blocks[1].status = Completed
    /\ resp = "Session marked as completed!"

\* the statuses the dashboard forms post
PostedStatuses == {f.status : f \in Forms}

\* the digest of block r's fields as dashboard() hands them to mine_block,
\* with status st and nonce n
MinedDigest(r, st, n) ==
    calculate_hash(r.block_number, StrfTime(r.timestamp), r.prev_hash,
                   DataOf(r.date, r.subject, r.duration, st), n, DIFFICULTY)

\* C22: the hash and nonce that mine_block returned for a stored block agree:
\* the hash is the digest of the block's fields, as posted, at the stored
\* nonce; the nonce lies in 0..MAX_NONCE; when no nonce below MAX_NONCE gives
\* a digest that meets the difficulty, the nonce is MAX_NONCE; and the block
\* passes the verifier's hash check as long as its status is the posted one.
C22_MinedPairConsistent ==
    \A i \in 1..Len(blocks) :
        \E st \in PostedStatuses :
            /\ blocks[i].status # Completed => st = blocks[i].status
            /\ blocks[i].hash = MinedDigest(blocks[i], st, blocks[i].nonce)
            /\ blocks[i].nonce \in 0..MAX_NONCE
            /\ (\A n \in 0..(MAX_NONCE - 1) :
                    ~LeadingZeros(MinedDigest(blocks[i], st, n), DIFFICULTY))
                  => blocks[i].nonce = MAX_NONCE
            /\ blocks[i].status = st => ~HashCheckFails(blocks, i)

\* a block mined to the ceiling and a block mined below it, both as posted
C22_Witness ==
    /\ Len(blocks) = MaxRows
    /\ \E i, j \in 1..Len(blocks) :
          /\ blocks[i].nonce = MAX_NONCE
          /\ ~LeadingZeros(blocks[i].hash, DIFFICULTY)
          /\ blocks[i].status \in PostedStatuses
          /\ blocks[j].nonce \in 1..(MAX_NONCE - 1)
          /\ LeadingZeros(blocks[j].hash, DIFFICULTY)
          /\ blocks[j].status \in PostedStatuses

\* C23: when update_status turns the status of block k of a user's chain from
\* another value into 'completed', verify_chain reports "Block k has invalid
\* hash" if the chain was valid before; and if the chain already failed, the
\* report names the lower of k and the block that failed before, so that
\* after several such changes to a valid chain it names the lowest block
\* changed.
C23_StatusFlipBreaksHash ==
    [][ blocks' # blocks =>
          \A u \in Users, id \in 1..Len(blocks) :
              ( /\ UpdateStatus(u, id)
                /\ blocks[id].user_id = u
                /\ blocks[id].status # Completed )
              => LET before == verify_chain(blocks, u)
                     after == verify_chain(blocks', u)
                     k == blocks[id].block_number
                 IN  /\ before.valid =>
                           after = Verdict(FALSE, k, "has invalid hash")
                     /\ (~before.valid /\ before.block >= k) =>
                           after = Verdict(FALSE, k, "has invalid hash")
                     /\ (~before.valid /\ before.block < k) => after = before
      ]_vars

\* both blocks of a chain that verified marked completed, the second first
C23_Witness ==
    /\ Len(blocks) = MaxRows
    /\ \A i \in 1..Len(blocks) :
          /\ blocks[i].user_id = 1
          /\ blocks[i].status = Completed
          /\ ~LinkCheckFails(blocks, i)
          /\ ~DifficultyCheckFails(blocks, i)
          /\ \E st \in PostedStatuses :
                blocks[i].hash = MinedDigest(blocks[i], st, blocks[i].nonce)
    /\ resp = "Session marked as completed!"
    /\ verify_chain(blocks, 1) = Verdict(FALSE, 1, "has invalid hash")

\* C24: every stored block carries the difficulty DIFFICULTY it was mined
\* with, and a block whose nonce is below MAX_NONCE has a hash that starts
\* with DIFFICULTY zeros, so that the verifier's test against the block's own
\* difficulty passes for it, in every state the handlers reach.
C24_StoredDifficultyMet ==
    \A i \in 1..Len(blocks) :
        /\ blocks[i].difficulty = DIFFICULTY
        /\ blocks[i].nonce < MAX_NONCE =>
              /\ LeadingZeros(blocks[i].hash, DIFFICULTY)
              /\ ~DifficultyCheckFails(blocks, i)

\* a block mined below the ceiling, since marked completed, next to a block
\* mined to the ceiling whose hash misses the target
C24_Witness ==
    /\ Len(blocks) = MaxRows
    /\ resp = "Session marked as completed!"
    /\ \E i, j \in 1..Len(blocks) :
          /\ blocks[i].nonce < MAX_NONCE
          /\ blocks[i].status = Completed
          /\ HashCheckFails(blocks, i)
          /\ blocks[j].nonce = MAX_NONCE
          /\ DifficultyCheckFails(blocks, j)

===========================================================================
